---------------------------- MODULE Spec2Model ----------------------------
(***************************************************************************)
(* Model of the two programs of the repository:                            *)
(*   strava_oauth.py        - the OAuth handshake: a callback listener     *)
(*                            (OAuthHandler.do_GET) running in a daemon    *)
(*                            thread, and the orchestrator (main) polling  *)
(*                            the slot httpd.auth_code, then calling       *)
(*                            exchange_code_for_token;                     *)
(*   strava_weekly_stats.py - the paged fetch of activities and the        *)
(*                            aggregation pipeline.                        *)
(* Spec is the OAuth run, SpecStats the weekly-stats run.                  *)
(*                                                                         *)
(* The clock advances only in time.sleep(1), by at least one second and    *)
(* at most MaxSleep (the process may be held up); the other statements     *)
(* take no time, but the listener thread runs between any two of them and  *)
(* while main waits inside webbrowser.open or for curl.  The listener      *)
(* thread accepts a connection, runs do_GET up to the write of the slot,   *)
(* and sends the response, in three steps, so a handler can be in flight   *)
(* when main reads the slot, closes the socket, returns, and the process   *)
(* exits.                                                                  *)
(***************************************************************************)
EXTENDS Integers, Sequences, FiniteSets, TLC

(***************************************************************************)
(* Python / JSON values.  A parsed JSON value is a tagged record, so that  *)
(* the type-dependent behaviour of Python's operators (truthiness, `in`,   *)
(* subscripting, .get) can be computed as Python computes it.              *)
(***************************************************************************)
JNull == [t |-> "null"]
JBool(b) == [t |-> "bool", v |-> b]
JNum(n) == [t |-> "num", v |-> n]
JStr(s) == [t |-> "str", v |-> s]
JList(s) == [t |-> "list", v |-> s]
JDict(f) == [t |-> "dict", v |-> f]

\* The empty mapping {}.
EmptyMap == [k \in {} |-> JNull]

\* bool(x): None, False, 0, "", [] and {} are falsy.
Truthy(x) ==
    CASE x.t = "null" -> FALSE
      [] x.t = "bool" -> x.v
      [] x.t = "num" -> x.v # 0
      [] x.t = "str" -> x.v # ""
      [] x.t = "list" -> Len(x.v) > 0
      [] x.t = "dict" -> DOMAIN x.v # {}

\* The strings of the model that contain "access_token" as a substring
\* (`k in s` on a str is a substring test).
StrContains(s, k) == k = "access_token" /\ s \in {"access_token", "no access_token here"}

\* `k in x` raises TypeError when x is not a container (None, bool, int).
PyInRaises(x) == x.t \in {"null", "bool", "num"}

\* `k in x` on a container: substring of a str, element of a list, key of a
\* mapping.
PyIn(k, x) ==
    CASE x.t = "str" -> StrContains(x.v, k)
      [] x.t = "list" -> \E i \in 1..Len(x.v) : x.v[i] = JStr(k)
      [] x.t = "dict" -> k \in DOMAIN x.v
      [] OTHER -> FALSE

\* x[k] with a str key: only a mapping can be subscripted by a string.
PySubscriptOk(x, k) == x.t = "dict" /\ k \in DOMAIN x.v

\* x.get(k, d) on a mapping.
PyGet(x, k, d) == IF k \in DOMAIN x.v THEN x.v[k] ELSE d

(***************************************************************************)
(* The callback listener: OAuthHandler.do_GET.                             *)
(* A request path is its part before the query (base), whether it has a    *)
(* `?` (hasq), and the query as a sequence of <<name, value>> pairs.       *)
(***************************************************************************)
None == "None"
Codes == {"A", "B"}

Path(b, h, q) == [base |-> b, hasq |-> h, query |-> q]

\* The request targets the handler is exercised with.
Requests ==
    { Path("/", FALSE, <<>>),                                   \* /
      Path("/", TRUE, << <<"code", "A">> >>),                   \* /?code=A
      Path("/", TRUE, << <<"code", "">> >>),                    \* /?code=
      Path("/", TRUE, << <<"error", "access_denied">> >>),      \* /?error=access_denied
      Path("/", TRUE, << <<"state", "x">>, <<"code", "B">> >>), \* /?state=x&code=B
      Path("/cb", TRUE, << <<"code", "A">> >>) }                \* /cb?code=A

\* self.path.startswith('/?')
StartsWithRootQuery(p) == p.base = "/" /\ p.hasq

\* urllib.parse.urlparse(self.path).query
urlparse_query(p) == IF p.hasq THEN p.query ELSE <<>>

\* urllib.parse.parse_qs(query): name -> list of its values in order;
\* pairs with a blank value are dropped (keep_blank_values=False).
parse_qs(q) ==
    LET kept == SelectSeq(q, LAMBDA pr : pr[2] # "")
        names == {kept[i][1] : i \in 1..Len(kept)}
        valuesOf(n) == LET s == SelectSeq(kept, LAMBDA pr : pr[1] = n)
                       IN [i \in 1..Len(s) |-> s[i][2]]
    IN [n \in names |-> valuesOf(n)]

\* do_GET with the slot assigned before the test for `code`: a request
\* without a code clears the slot.
do_GET_assign_first(p, slot) ==
    IF StartsWithRootQuery(p)
    THEN LET params == parse_qs(urlparse_query(p))
         IN IF "code" \in DOMAIN params
            THEN [status |-> 200, slot |-> params["code"][1]]
            ELSE [status |-> 400, slot |-> None]
    ELSE [status |-> 404, slot |-> slot]

\* do_GET as a function of the request and the slot: the status sent and
\* the slot afterwards.
do_GET_result(p, slot) ==
    IF StartsWithRootQuery(p)
    THEN LET params == parse_qs(urlparse_query(p))
         IN IF "code" \in DOMAIN params
            THEN [status |-> 200, slot |-> params["code"][1]]
            ELSE [status |-> 400, slot |-> slot]
    ELSE [status |-> 404, slot |-> slot]

(***************************************************************************)
(* The token exchanger: exchange_code_for_token.                           *)
(***************************************************************************)
\* Response bodies of the token endpoint that parse as JSON.
TokenBodies ==
    { JDict([access_token |-> JStr("T1"), refresh_token |-> JStr("R1"),
             expires_at |-> JNum(1700000000)]),
      JDict([access_token |-> JStr("T2")]),
      JDict([access_token |-> JStr("T1"), expires_at |-> JStr("soon")]),
      JDict([message |-> JStr("Bad Request"), errors |-> JList(<<>>)]),
      JDict(EmptyMap),
      JNull,
      JBool(TRUE),
      JStr("oops"),
      JStr("access_token") }

\* What subprocess.run(curl ..., text=True, check=True) can do:
\*   oserror     - curl cannot be started (FileNotFoundError)
\*   nonzero     - curl exits with a non-zero status (CalledProcessError)
\*   undecodable - the output is not text in the locale's encoding
\*                 (UnicodeDecodeError)
\*   badjson     - the output is text that is not JSON (JSONDecodeError)
\*   json        - the output is a JSON document
CurlOutcomes == {"oserror", "nonzero", "undecodable", "badjson", "json"}

\* exchange_code_for_token given what curl did: only CalledProcessError and
\* JSONDecodeError are caught; any other exception leaves the function.
exchange_code_for_token(curlOutcome, body) ==
    CASE curlOutcome = "nonzero" ->
            [raised |-> FALSE, value |-> JNull, msg |-> {"exchange_error"}]
      [] curlOutcome = "badjson" ->
            [raised |-> FALSE, value |-> JNull, msg |-> {"parse_error"}]
      [] curlOutcome = "json" ->
            [raised |-> FALSE, value |-> body, msg |-> {}]
      [] OTHER ->
            [raised |-> TRUE, value |-> JNull, msg |-> {}]

(***************************************************************************)
(* The orchestrator: main of strava_oauth.py.                              *)
(***************************************************************************)
timeout == 120
poll_interval == 1
MaxSleep == 3

MaxRequests == 2

Unset == "Unset"
NoReq == Path("", FALSE, <<>>)
JUnset == [t |-> "unset"]
\* strava_tokens.json before the run: absent (a first run), or as an
\* earlier run left it.
NoFile == [t |-> "nofile"]
PriorFiles == {NoFile, JDict([access_token |-> JStr("OLD")])}

VARIABLES
    opc,            \* position of main
    outcome,        \* how main ended: running, timeout, failure, success, crash
    auth_code,      \* httpd.auth_code, the CallbackResult slot
    serving,        \* the listener thread runs serve_forever
    now,            \* time.time(), in seconds
    start_time,     \* start_time of main
    seen_check,     \* httpd.auth_code as read by `if httpd.auth_code is None`
    read_print,     \* httpd.auth_code as read by the printout
    submitted,      \* the codes passed to exchange_code_for_token, in order
    curl,           \* what curl did in the exchange ("none" before it)
    token_response, \* token_response of main
    tokens_file,    \* content of strava_tokens.json
    file_writes,    \* number of writes of strava_tokens.json in this run
    printed,        \* the messages printed so far
    nreq,           \* number of requests handled
    last_req,       \* the last request handled
    last_status,    \* the status sent for it
    slot_before,    \* the slot before it was handled
    first_code,     \* the code recorded by the first request that recorded one
    code_seen,      \* some request handled so far carried a `code` parameter
    listening,      \* the server socket is bound to port 8000 and listening
    browser_open,   \* webbrowser.open(AUTH_URL) has been called
    refused_not_ready, \* a connection made after it was refused: no listener yet
    seen_loop,      \* httpd.auth_code as last read by the loop condition
    lpc,            \* position of the listener thread: in the select of
                    \* serve_forever, in the handler of an accepted
                    \* connection before its request is read ("handle"), or
                    \* in do_GET before the response is sent ("respond")
    cur_req,        \* self.path of the request do_GET is running for
    cur_before      \* the slot as it was when do_GET was entered

oauth_vars == << opc, outcome, auth_code, serving, now, start_time, seen_check,
                 read_print, submitted, curl, token_response, tokens_file,
                 file_writes, printed, nreq, last_req, last_status, slot_before,
                 first_code, code_seen, listening, browser_open,
                 refused_not_ready, seen_loop, lpc, cur_req, cur_before >>

VARIABLES
    spc,           \* position of main (strava_weekly_stats.py)
    soutcome,      \* how it ended: running, rejected, no_activities, no_data,
                   \* chart, crash
    weeks,         \* args.weeks
    page,          \* page of get_activities_in_date_range
    activities,    \* activities of get_activities_in_date_range
    response,      \* response of the current pass
    requested,     \* the page and per_page of each request, in order
    served,        \* the responses make_strava_request returned, in order
    fetch_result,  \* what get_activities_in_date_range returned
    filter_input,  \* the argument of filter_activities
    filtered,      \* filtered_activities of main
    weekly_data,   \* weekly_data of main
    chart,         \* the points plotted by create_graph, <<>> when no chart
    sprinted       \* the messages printed so far

stats_vars == << spc, soutcome, weeks, page, activities, response, requested,
                 served, fetch_result, filter_input, filtered, weekly_data,
                 chart, sprinted >>

OAuthInit ==
    /\ opc = "bind"
    /\ listening = FALSE
    /\ browser_open = FALSE
    /\ refused_not_ready = FALSE
    /\ seen_loop = Unset
    /\ outcome = "running"
    /\ auth_code = Unset
    /\ serving = FALSE
    /\ now = 0
    /\ start_time = 0
    /\ seen_check = Unset
    /\ read_print = Unset
    /\ submitted = <<>>
    /\ curl = "none"
    /\ token_response = JUnset
    /\ tokens_file \in PriorFiles
    /\ file_writes = 0
    /\ printed = {}
    /\ nreq = 0
    /\ last_req = NoReq
    /\ last_status = 0
    /\ slot_before = Unset
    /\ first_code = None
    /\ code_seen = FALSE
    /\ lpc = "select"
    /\ cur_req = NoReq
    /\ cur_before = Unset

listener_vars == << nreq, last_req, last_status, slot_before, first_code,
                    code_seen, lpc, cur_req, cur_before >>
exchange_vars == << submitted, curl, token_response >>
output_vars == << tokens_file, file_writes, printed >>
clock_vars == << now, start_time >>
read_vars == << seen_loop, seen_check, read_print >>
boot_vars == << listening, browser_open, refused_not_ready >>

\* The request carries a `code` parameter, as parse_qs sees it.
CarriesCode(p) == "code" \in DOMAIN parse_qs(urlparse_query(p))

\* serve_forever: a connection to the listening socket is accepted
\* (get_request) and its handler is entered; the handler waits for the
\* request line.  A closed socket accepts nothing.
Accept ==
    /\ serving
    /\ listening
    /\ lpc = "select"
    /\ opc # "exited"
    /\ nreq < MaxRequests
    /\ lpc' = "handle"
    /\ UNCHANGED << opc, outcome, auth_code, serving, clock_vars, read_vars,
                    exchange_vars, output_vars, nreq, last_req, last_status,
                    slot_before, first_code, code_seen, cur_req, cur_before,
                    boot_vars, stats_vars >>

\* The handler of the accepted connection ends without calling do_GET: the
\* client closed the connection without a request, or the request is not a
\* GET.  The thread returns to the select.
NoRequest ==
    /\ lpc = "handle"
    /\ opc # "exited"
    /\ lpc' = "select"
    /\ UNCHANGED << opc, outcome, auth_code, serving, clock_vars, read_vars,
                    exchange_vars, output_vars, nreq, last_req, last_status,
                    slot_before, first_code, code_seen, cur_req, cur_before,
                    boot_vars, stats_vars >>

\* The handler of the accepted connection reads a GET request and runs
\* do_GET up to its response: the tests of the path and of `code`, and the
\* write of the slot (line 33), the handler's only write.  The accepted
\* connection is served whether or not the server socket has been closed
\* since.
HandleRequest(p) ==
    /\ lpc = "handle"
    /\ opc # "exited"
    /\ lpc' = "respond"
    /\ cur_req' = p
    /\ cur_before' = auth_code
    /\ auth_code' = do_GET_result(p, auth_code).slot
    /\ UNCHANGED << opc, outcome, serving, clock_vars, read_vars, exchange_vars,
                    output_vars, nreq, last_req, last_status, slot_before,
                    first_code, code_seen, boot_vars, stats_vars >>

\* do_GET sends its response (send_response, headers, body) and returns;
\* the thread returns to the select.
SendResponse ==
    /\ lpc = "respond"
    /\ opc # "exited"
    /\ lpc' = "select"
    /\ LET r == do_GET_result(cur_req, cur_before)
       IN /\ last_status' = r.status
          /\ first_code' = IF r.status = 200 /\ first_code = None
                           THEN r.slot ELSE first_code
    /\ nreq' = nreq + 1
    /\ last_req' = cur_req
    /\ slot_before' = cur_before
    /\ code_seen' = (code_seen \/ CarriesCode(cur_req))
    /\ cur_req' = NoReq
    /\ cur_before' = Unset
    /\ UNCHANGED << opc, outcome, auth_code, serving, clock_vars, read_vars,
                    exchange_vars, output_vars, boot_vars, stats_vars >>

\* A connection to port 8000 made while no socket listens there is refused.
Refuse ==
    /\ ~listening
    /\ outcome = "running"
    /\ refused_not_ready' = (refused_not_ready \/ browser_open)
    /\ UNCHANGED << opc, outcome, auth_code, serving, clock_vars, read_vars,
                    exchange_vars, output_vars, listener_vars, listening,
                    browser_open, stats_vars >>

\* A server constructed without binding its socket.
bind_and_activate_false == FALSE

\* socketserver.TCPServer(("", 8000), OAuthHandler): the constructor's
\* bind_and_activate defaults to True, so it binds and listens.
bind_and_activate == TRUE

\* with socketserver.TCPServer(("", 8000), OAuthHandler) as httpd: the
\* bind succeeds, or raises OSError (the port is taken).
Bind(ok) ==
    /\ opc = "bind"
    /\ IF ok
       THEN /\ listening' = bind_and_activate
            /\ opc' = "init_slot"
            /\ UNCHANGED outcome
       ELSE /\ opc' = "done"
            /\ outcome' = "crash"
            /\ UNCHANGED listening
    /\ UNCHANGED << auth_code, serving, clock_vars, read_vars, exchange_vars,
                    output_vars, listener_vars, browser_open, refused_not_ready,
                    stats_vars >>

\* httpd.auth_code = None
InitSlot ==
    /\ opc = "init_slot"
    /\ auth_code' = None
    /\ opc' = "start_thread"
    /\ UNCHANGED << outcome, serving, clock_vars, read_vars, exchange_vars,
                    output_vars, listener_vars, boot_vars, stats_vars >>

\* server_thread.start(): serve_forever runs from now on.
StartThread ==
    /\ opc = "start_thread"
    /\ serving' = TRUE
    /\ opc' = "open_browser"
    /\ UNCHANGED << outcome, auth_code, clock_vars, read_vars, exchange_vars,
                    output_vars, listener_vars, boot_vars, stats_vars >>

\* webbrowser.open(AUTH_URL) is called: the browser is launched, and main
\* waits in the call until it returns.
OpenBrowser ==
    /\ opc = "open_browser"
    /\ browser_open' = TRUE
    /\ opc' = "browser_wait"
    /\ UNCHANGED << outcome, auth_code, serving, clock_vars, read_vars,
                    exchange_vars, output_vars, listener_vars, listening,
                    refused_not_ready, stats_vars >>

\* webbrowser.open returns; timeout = 120; start_time = time.time()
StartClock ==
    /\ opc = "browser_wait"
    /\ start_time' = now
    /\ opc' = "loop"
    /\ UNCHANGED << outcome, auth_code, serving, now, read_vars, exchange_vars,
                    output_vars, listener_vars, boot_vars, stats_vars >>

\* The condition of the polling loop.
LoopCond(slot, t, t0) == slot = None /\ (t - t0) < timeout

\* while httpd.auth_code is None and (time.time() - start_time) < timeout
LoopTest ==
    /\ opc = "loop"
    /\ opc' = IF LoopCond(auth_code, now, start_time) THEN "sleep" ELSE "check"
    /\ seen_loop' = auth_code
    /\ UNCHANGED << outcome, auth_code, serving, clock_vars, seen_check,
                    read_print, exchange_vars, output_vars, listener_vars, boot_vars, stats_vars >>

\* time.sleep(1): the call returns after d seconds, at least the second
\* asked for.
Sleep(d) ==
    /\ opc = "sleep"
    /\ d >= poll_interval
    /\ now' = now + d
    /\ opc' = "loop"
    /\ UNCHANGED << outcome, auth_code, serving, start_time, read_vars,
                    exchange_vars, output_vars, listener_vars, boot_vars, stats_vars >>

\* The None check without its return.
AfterCheck_no_return(slot) == "print_code"

\* Where main goes after `if httpd.auth_code is None`.
AfterCheck(slot) == IF slot = None THEN "timeout" ELSE "print_code"

\* if httpd.auth_code is None: print(timeout); return
Check ==
    /\ opc = "check"
    /\ seen_check' = auth_code
    /\ IF AfterCheck(auth_code) = "timeout"
       THEN /\ printed' = printed \cup {"timeout"}
            /\ opc' = "leave"
            /\ outcome' = "timeout"
       ELSE /\ opc' = "print_code"
            /\ UNCHANGED << printed, outcome >>
    /\ UNCHANGED listening
    /\ UNCHANGED << auth_code, serving, clock_vars, seen_loop, read_print,
                    exchange_vars, tokens_file, file_writes, listener_vars, browser_open,
                    refused_not_ready, stats_vars >>

\* print(f"Got authorization code: {httpd.auth_code[:20]}...")
PrintCode ==
    /\ opc = "print_code"
    /\ read_print' = auth_code
    /\ printed' = printed \cup {"got_code"}
    /\ opc' = "exchange"
    /\ UNCHANGED << outcome, auth_code, serving, clock_vars, seen_loop,
                    seen_check, exchange_vars, tokens_file, file_writes, listener_vars, boot_vars, stats_vars >>

\* print("Exchanging code for access token..."); exchange_code_for_token is
\* called with httpd.auth_code and starts curl; main waits for it.
ExchangeCall ==
    /\ opc = "exchange"
    /\ submitted' = Append(submitted, auth_code)
    /\ printed' = printed \cup {"exchanging"}
    /\ opc' = "exchange_wait"
    /\ UNCHANGED << outcome, auth_code, serving, clock_vars, read_vars, curl,
                    token_response, tokens_file, file_writes, listener_vars,
                    boot_vars, stats_vars >>

\* curl ends: token_response = the value exchange_code_for_token returns, or
\* its exception leaves main.
ExchangeReturn(c, body) ==
    /\ opc = "exchange_wait"
    /\ curl' = c
    /\ LET r == exchange_code_for_token(c, body)
       IN /\ printed' = printed \cup r.msg
          /\ IF r.raised
             THEN /\ opc' = "leave"
                  /\ outcome' = "crash"
                  /\ UNCHANGED token_response
             ELSE /\ opc' = "branch"
                  /\ token_response' = r.value
                  /\ UNCHANGED outcome
    /\ UNCHANGED listening
    /\ UNCHANGED << auth_code, serving, clock_vars, read_vars, submitted,
                    tokens_file, file_writes, listener_vars, browser_open,
                    refused_not_ready, stats_vars >>

\* if token_response and 'access_token' in token_response
BranchResult(r) ==
    IF ~Truthy(r) THEN "else"
    ELSE IF PyInRaises(r) THEN "raise"
    ELSE IF PyIn("access_token", r) THEN "then" ELSE "else"

Branch ==
    /\ opc = "branch"
    /\ LET b == BranchResult(token_response)
       IN /\ opc' = CASE b = "then" -> "success_print"
                      [] b = "else" -> "fail_print"
                      [] OTHER -> "leave"
          /\ outcome' = IF b = "raise" THEN "crash" ELSE outcome
    /\ UNCHANGED listening
    /\ UNCHANGED << auth_code, serving, clock_vars, read_vars, exchange_vars,
                    output_vars, listener_vars, browser_open,
                    refused_not_ready, stats_vars >>

\* token_response['access_token'], .get('refresh_token', ''),
\* .get('expires_at', 0) and time.ctime(expires_at) if expires_at: whether
\* the printout of the tokens raises.
SuccessPrintRaises(r) ==
    \/ ~PySubscriptOk(r, "access_token")
    \/ LET e == PyGet(r, "expires_at", JNum(0))
       IN Truthy(e) /\ e.t \notin {"num", "bool"}

SuccessPrint ==
    /\ opc = "success_print"
    /\ IF SuccessPrintRaises(token_response)
       THEN /\ opc' = "leave"
            /\ outcome' = "crash"
            /\ printed' = IF PySubscriptOk(token_response, "access_token")
                          THEN printed \cup {"success"} ELSE printed
       ELSE /\ opc' = "save"
            /\ printed' = printed \cup {"success"}
            /\ UNCHANGED outcome
    /\ UNCHANGED listening
    /\ UNCHANGED << auth_code, serving, clock_vars, read_vars, exchange_vars,
                    tokens_file, file_writes, listener_vars, browser_open,
                    refused_not_ready, stats_vars >>

\* with open('strava_tokens.json', 'w') as f: json.dump(token_response, f)
Save ==
    /\ opc = "save"
    /\ tokens_file' = token_response
    /\ file_writes' = file_writes + 1
    /\ printed' = printed \cup {"saved"}
    /\ opc' = "leave"
    /\ outcome' = "success"
    /\ UNCHANGED listening
    /\ UNCHANGED << auth_code, serving, clock_vars, read_vars, exchange_vars,
                    listener_vars, browser_open,
                    refused_not_ready, stats_vars >>

\* A failed exchange retried.
AfterFailure_retry == "exchange"

\* Where main goes after the failure printout: it falls off its end.
AfterFailure == "leave"

\* print("Failed to get access token"); if token_response: print(response)
FailPrint ==
    /\ opc = "fail_print"
    /\ printed' = printed \cup {"failed"} \cup
                  (IF Truthy(token_response) THEN {"response"} ELSE {})
    /\ opc' = AfterFailure
    /\ outcome' = IF AfterFailure = "leave" THEN "failure" ELSE outcome
    /\ UNCHANGED listening
    /\ UNCHANGED << auth_code, serving, clock_vars, read_vars, exchange_vars,
                    tokens_file, file_writes, listener_vars, browser_open,
                    refused_not_ready, stats_vars >>

\* A thread that is not a daemon.
daemon_false == FALSE

\* server_thread.daemon = True
daemon == TRUE

\* The interpreter's shutdown joins the threads that are alive and not
\* daemons; the listener thread, once started, never ends by itself
\* (nothing calls httpd.shutdown()).
CanExit == daemon \/ ~serving

\* main has ended, by return or by an exception: the `with` block of line 92
\* is left and TCPServer.__exit__ calls server_close().
WithExit ==
    /\ opc = "leave"
    /\ listening' = FALSE
    /\ opc' = "done"
    /\ UNCHANGED << outcome, auth_code, serving, clock_vars, read_vars,
                    exchange_vars, output_vars, listener_vars, browser_open,
                    refused_not_ready, stats_vars >>

\* main has returned: the interpreter shuts down and the process exits,
\* whatever the listener thread is doing; a daemon thread is abandoned
\* where it is.
ProcessExit ==
    /\ opc = "done"
    /\ CanExit
    /\ opc' = "exited"
    /\ UNCHANGED << outcome, auth_code, serving, clock_vars, read_vars,
                    exchange_vars, output_vars, listener_vars, boot_vars,
                    stats_vars >>

\* The steps of the main thread.
MainStep ==
    \/ \E ok \in BOOLEAN : Bind(ok)
    \/ InitSlot
    \/ StartThread
    \/ OpenBrowser
    \/ StartClock
    \/ LoopTest
    \/ \E d \in poll_interval..MaxSleep : Sleep(d)
    \/ Check
    \/ PrintCode
    \/ ExchangeCall
    \/ \E c \in CurlOutcomes : \E body \in TokenBodies : ExchangeReturn(c, body)
    \/ Branch
    \/ SuccessPrint
    \/ Save
    \/ FailPrint
    \/ WithExit
    \/ ProcessExit

OAuthNext ==
    \/ Accept
    \/ NoRequest
    \/ \E p \in Requests : HandleRequest(p)
    \/ SendResponse
    \/ Refuse
    \/ \E ok \in BOOLEAN : Bind(ok)
    \/ InitSlot
    \/ StartThread
    \/ OpenBrowser
    \/ StartClock
    \/ LoopTest
    \/ \E d \in poll_interval..MaxSleep : Sleep(d)
    \/ Check
    \/ PrintCode
    \/ ExchangeCall
    \/ \E c \in CurlOutcomes : \E body \in TokenBodies : ExchangeReturn(c, body)
    \/ Branch
    \/ SuccessPrint
    \/ Save
    \/ FailPrint
    \/ WithExit
    \/ ProcessExit

(***************************************************************************)
(* strava_weekly_stats.py: make_strava_request, the paged fetch            *)
(* get_activities_in_date_range, and main up to the end of the fetch.      *)
(***************************************************************************)
per_page == 200
MaxPages == 3

\* The values of the `weeks` argument main is run with.
WeeksArgs == {-1, 0, 1, 2}

MaxActs == 2

\* A calendar date, and a JSON string holding an ISO-8601 timestamp of that
\* date ("2024-01-05T07:30:00Z").
Date(y, m, d) == [y |-> y, m |-> m, d |-> d]
JIso(y, m, d) == [t |-> "str", v |-> "iso", date |-> Date(y, m, d)]

\* An activity payload with its three fields.
Act(type, date, secs) ==
    JDict([type |-> JStr(type), start_date |-> date, moving_time |-> JNum(secs)])

\* The activities short pages are made of; the last three lack fields or
\* carry a null.
ActivityKinds ==
    { Act("Run", JIso(2024, 1, 1), 3600),
      Act("Ride", JIso(2024, 1, 5), 1800),
      Act("WeightTraining", JIso(2024, 1, 3), 7200),
      Act("WORKOUT", JIso(2024, 1, 8), 3600),
      Act("Run", JIso(2024, 1, 8), 3600),
      Act("Run", JIso(2023, 12, 31), 1800),
      JDict([start_date |-> JIso(2024, 1, 7)]),
      JDict([type |-> JStr("Run"), moving_time |-> JNum(1800)]),
      JDict([type |-> JStr("Run"), start_date |-> JIso(2024, 1, 1),
             moving_time |-> JNull]) }

\* The i-th activity of page p of a long listing: types, dates (two weeks
\* from 2023-12-25) and durations vary with its number.
Activity(p, i) ==
    LET k == (p - 1) * per_page + i
        off == k % 14
    IN JDict([id |-> JNum(k),
              type |-> JStr(<<"Run", "Ride", "WeightTraining", "Workout">>[(k % 4) + 1]),
              start_date |-> IF off <= 6 THEN JIso(2023, 12, 25 + off)
                                         ELSE JIso(2024, 1, off - 6),
              moving_time |-> JNum(1800 * ((k % 3) + 1))])

\* A page of n activities.
PageOf(p, n) == JList([i \in 1..n |-> Activity(p, i)])

\* The page lengths the provider answers with.
PageSizes == {0, 1, 47, 199, 200}

\* The listings of an athlete with up to MaxActs activities in the range,
\* each one of ActivityKinds: a single short first page.
SmallPages(p) ==
    IF p = 1
    THEN UNION { { JList(f) : f \in [1..n -> ActivityKinds] } : n \in 1..MaxActs }
    ELSE {}

\* Response bodies of the activity endpoint for page p that parse as JSON.
ActivityBodies(p) ==
    { PageOf(p, n) : n \in PageSizes } \cup SmallPages(p) \cup
    { JDict([message |-> JStr("Authorization Error"),
             errors |-> JList(<< JDict([resource |-> JStr("Athlete"),
                                        code |-> JStr("invalid")]) >>)]),
      JDict([message |-> JStr("Rate Limit Exceeded"), errors |-> JList(<<>>)]),
      JDict([message |-> JStr("Bad Request"), errors |-> JStr("bad")]),
      JDict([errors |-> JNull]),
      JDict([message |-> JStr("hello")]),
      JDict(EmptyMap),
      JNum(5),
      JNull }

\* make_strava_request given what curl did: as in the exchanger, only
\* CalledProcessError and JSONDecodeError are caught.
make_strava_request(curlOutcome, body) ==
    CASE curlOutcome = "nonzero" ->
            [raised |-> FALSE, value |-> JNull, msg |-> {"request_error"}]
      [] curlOutcome = "badjson" ->
            [raised |-> FALSE, value |-> JNull, msg |-> {"json_error"}]
      [] curlOutcome = "json" ->
            [raised |-> FALSE, value |-> body, msg |-> {}]
      [] OTHER ->
            [raised |-> TRUE, value |-> JNull, msg |-> {}]

\* isinstance(response, dict) and 'errors' in response
IsApiError(r) == r.t = "dict" /\ "errors" \in DOMAIN r.v

\* for error in response['errors']: error.get(...): raises when the value
\* cannot be iterated (None, bool, int) or an element has no .get (the
\* characters of a str, the keys of a mapping, any non-mapping element).
ErrorsLoopRaises(e) ==
    CASE e.t = "list" -> \E i \in 1..Len(e.v) : e.v[i].t # "dict"
      [] e.t = "str" -> e.v # ""
      [] e.t = "dict" -> DOMAIN e.v # {}
      [] OTHER -> TRUE

\* The last-page test off by one.
IsShortPage_le(n) == n <= per_page

\* len(response) < per_page: the page is the last one.
IsShortPage(n) == n < per_page

\* One pass of the body of `while True` after the request: what the loop
\* does with the response (break, return [], raise, or go on to the next
\* page) and the activities and page number afterwards.
FetchStep(r, acts, pg) ==
    IF ~Truthy(r)
    THEN [kind |-> "break", acts |-> acts, page |-> pg]
    ELSE IF IsApiError(r)
    THEN IF ErrorsLoopRaises(r.v["errors"])
         THEN [kind |-> "raise", acts |-> acts, page |-> pg]
         ELSE [kind |-> "return_empty", acts |-> acts, page |-> pg]
    ELSE IF r.t # "list" \/ Len(r.v) = 0
    THEN [kind |-> "break", acts |-> acts, page |-> pg]
    ELSE IF IsShortPage(Len(r.v))
    THEN [kind |-> "break", acts |-> acts \o r.v, page |-> pg]
    ELSE [kind |-> "continue", acts |-> acts \o r.v, page |-> pg + 1]

agg_vars == << filtered, weekly_data, chart >>
fetch_vars == << weeks, page, activities, response, requested, served,
                 fetch_result, filter_input >>

StatsInit ==
    /\ spc = "args"
    /\ soutcome = "running"
    /\ weeks = 0
    /\ page = 1
    /\ activities = <<>>
    /\ response = JUnset
    /\ requested = <<>>
    /\ served = <<>>
    /\ fetch_result = JUnset
    /\ filter_input = JUnset
    /\ filtered = JUnset
    /\ weekly_data = JUnset
    /\ chart = <<>>
    /\ sprinted = {}

\* The argument check letting zero through.
NotPositive_negative_only(w) == w < 0

\* args.weeks <= 0
NotPositive(w) == w <= 0

\* args = parser.parse_args(); if args.weeks <= 0: print(...); return
ParseArgs(w) ==
    /\ spc = "args"
    /\ weeks' = w
    /\ IF NotPositive(w)
       THEN /\ sprinted' = sprinted \cup {"weeks_must_be_positive"}
            /\ spc' = "done"
            /\ soutcome' = "rejected"
       ELSE /\ sprinted' = sprinted \cup {"fetching"}
            /\ spc' = "request"
            /\ UNCHANGED soutcome
    /\ UNCHANGED << page, activities, response, requested, served,
                    fetch_result, filter_input, agg_vars, oauth_vars >>

\* response = make_strava_request(endpoint) for the current page
RequestPage(c, body) ==
    /\ spc = "request"
    /\ page <= MaxPages
    /\ requested' = Append(requested, [page |-> page, per_page |-> per_page])
    /\ LET r == make_strava_request(c, body)
       IN /\ sprinted' = sprinted \cup r.msg
          /\ IF r.raised
             THEN /\ spc' = "done"
                  /\ soutcome' = "crash"
                  /\ UNCHANGED << response, served >>
             ELSE /\ spc' = "handle"
                  /\ response' = r.value
                  /\ served' = Append(served, r.value)
                  /\ UNCHANGED soutcome
    /\ UNCHANGED << weeks, page, activities, fetch_result, filter_input,
                    agg_vars, oauth_vars >>

\* The rest of the pass: the checks of the response, extend, page += 1;
\* `break` leads to `return activities`, an API error to `return []`.
HandleResponse ==
    /\ spc = "handle"
    /\ LET st == FetchStep(response, activities, page)
       IN /\ activities' = st.acts
          /\ page' = st.page
          /\ spc' = CASE st.kind = "continue" -> "request"
                       [] st.kind = "raise" -> "done"
                       [] OTHER -> "fetched"
          /\ soutcome' = IF st.kind = "raise" THEN "crash" ELSE soutcome
          /\ fetch_result' = CASE st.kind = "break" -> JList(st.acts)
                                [] st.kind = "return_empty" -> JList(<<>>)
                                [] OTHER -> fetch_result
          /\ sprinted' = IF IsApiError(response)
                         THEN sprinted \cup {"api_error"} ELSE sprinted
    /\ UNCHANGED << weeks, response, requested, served, filter_input,
                    agg_vars, oauth_vars >>

\* activities = get_activities_in_date_range(...); if not activities:
\* print("No activities found or error fetching data"); return
AfterFetch ==
    /\ spc = "fetched"
    /\ IF ~Truthy(fetch_result)
       THEN /\ sprinted' = sprinted \cup {"no_activities"}
            /\ spc' = "done"
            /\ soutcome' = "no_activities"
            /\ UNCHANGED filter_input
       ELSE /\ sprinted' = sprinted \cup {"found"}
            /\ spc' = "filter"
            /\ filter_input' = fetch_result
            /\ UNCHANGED soutcome
    /\ UNCHANGED << weeks, page, activities, response, requested, served,
                    fetch_result, agg_vars, oauth_vars >>

(***************************************************************************)
(* The aggregation pipeline: filter_activities, group_by_week,             *)
(* create_graph.  A week key 'YYYY-MM-DD' is the number YYYYMMDD, whose     *)
(* order is the order of the strings; an amount of hours is an exact       *)
(* fraction in lowest terms (float rounding is not modelled).              *)
(***************************************************************************)
\* str.lower() on the activity types of the model.
lower(s) ==
    CASE s = "WeightTraining" -> "weighttraining"
      [] s \in {"WORKOUT", "Workout"} -> "workout"
      [] s = "Run" -> "run"
      [] s = "Ride" -> "ride"
      [] OTHER -> s

\* The exclusion test without .lower().
IsStrength_case_sensitive(a) ==
    PyGet(a, "type", JStr("")).v \in {"weighttraining", "workout"}

\* activity.get('type', '').lower() in ['weighttraining', 'workout']
IsStrength(a) ==
    lower(PyGet(a, "type", JStr("")).v) \in {"weighttraining", "workout"}

\* The loop body of filter_activities raises on this activity: .get on a
\* non-mapping, .lower() on a non-str type, or activity['start_date'] of a
\* kept activity without that key.
FilterRaises(a) ==
    \/ a.t # "dict"
    \/ PyGet(a, "type", JStr("")).t # "str"
    \/ (~IsStrength(a) /\ ~PySubscriptOk(a, "start_date"))

\* The entry appended for a kept activity.
FilterEntry(a) ==
    JDict([start_date |-> a.v["start_date"],
           moving_time |-> PyGet(a, "moving_time", JNum(0)),
           type |-> PyGet(a, "type", JStr("Unknown"))])

filter_activities(acts) ==
    IF \E i \in 1..Len(acts) : FilterRaises(acts[i])
    THEN [raised |-> TRUE, value |-> <<>>]
    ELSE LET kept == SelectSeq(acts, LAMBDA a : ~IsStrength(a))
         IN [raised |-> FALSE,
             value |-> [i \in 1..Len(kept) |-> FilterEntry(kept[i])]]

\* The proleptic Gregorian calendar of datetime.
IsLeap(y) == y % 4 = 0 /\ (y % 100 # 0 \/ y % 400 = 0)

DaysInMonth(y, m) ==
    CASE m = 2 -> IF IsLeap(y) THEN 29 ELSE 28
      [] m \in {4, 6, 9, 11} -> 30
      [] OTHER -> 31

DaysBeforeYear(y) ==
    LET p == y - 1 IN p * 365 + (p \div 4) - (p \div 100) + (p \div 400)

RECURSIVE DaysBeforeMonth(_, _)
DaysBeforeMonth(y, m) ==
    IF m = 1 THEN 0 ELSE DaysBeforeMonth(y, m - 1) + DaysInMonth(y, m - 1)

\* date.toordinal(): 0001-01-01 is day 1.
toordinal(dt) == DaysBeforeYear(dt.y) + DaysBeforeMonth(dt.y, dt.m) + dt.d

\* date.weekday(): Monday is 0, Sunday is 6.
weekday(dt) == (toordinal(dt) + 6) % 7

PrevDay(dt) ==
    IF dt.d > 1 THEN Date(dt.y, dt.m, dt.d - 1)
    ELSE IF dt.m > 1 THEN Date(dt.y, dt.m - 1, DaysInMonth(dt.y, dt.m - 1))
    ELSE Date(dt.y - 1, 12, 31)

\* dt - timedelta(days=n)
RECURSIVE MinusDays(_, _)
MinusDays(dt, n) == IF n = 0 THEN dt ELSE MinusDays(PrevDay(dt), n - 1)

\* monday = start_date - timedelta(days=start_date.weekday())
monday(dt) == MinusDays(dt, weekday(dt))

\* strftime('%Y-%m-%d'), as the number YYYYMMDD.
strftime(dt) == dt.y * 10000 + dt.m * 100 + dt.d

\* datetime.fromisoformat(s.replace('Z', '+00:00')) succeeds: s is a str in
\* ISO-8601 form.
IsIsoString(x) == x.t = "str" /\ "date" \in DOMAIN x

RECURSIVE Gcd(_, _)
Gcd(a, b) == IF b = 0 THEN a ELSE Gcd(b, a % b)

\* A fraction in lowest terms.
Frac(n, d) == LET g == Gcd(n, d) IN [num |-> n \div g, den |-> d \div g]
FracAdd(a, b) == Frac(a.num * b.den + b.num * a.den, a.den * b.den)

\* x / 3600.0 for an int (or bool) x.
HoursOf(x) ==
    Frac(IF x.t = "bool" THEN (IF x.v THEN 1 ELSE 0) ELSE x.v, 3600)

\* The loop body of group_by_week raises on this entry: the start date is
\* no ISO string, or the moving time cannot be divided.
GroupRaises(f) ==
    \/ ~IsIsoString(f.v["start_date"])
    \/ f.v["moving_time"].t \notin {"num", "bool"}

\* weekly_data[week_key] += x on two partial tallies: a key missing from
\* one reads as 0 (defaultdict(int)).
Tally(a, b) ==
    [k \in DOMAIN a \cup DOMAIN b |->
        FracAdd(IF k \in DOMAIN a THEN a[k] ELSE Frac(0, 1),
                IF k \in DOMAIN b THEN b[k] ELSE Frac(0, 1))]

\* The tally the loop of group_by_week makes of entries lo..hi, computed by
\* halves (the sums are exact, so the order of the additions is immaterial).
RECURSIVE group_loop(_, _, _)
group_loop(fl, lo, hi) ==
    IF lo > hi THEN EmptyMap
    ELSE IF lo = hi
    THEN LET week_key == strftime(monday(fl[lo].v["start_date"].date))
         IN (week_key :> HoursOf(fl[lo].v["moving_time"]))
    ELSE LET mid == (lo + hi) \div 2
         IN Tally(group_loop(fl, lo, mid), group_loop(fl, mid + 1, hi))

group_by_week(fl) ==
    IF \E i \in 1..Len(fl) : GroupRaises(fl[i])
    THEN [raised |-> TRUE, value |-> EmptyMap]
    ELSE [raised |-> FALSE, value |-> group_loop(fl, 1, Len(fl))]

\* sorted(weekly_data.items()): the keys in ascending order.
RECURSIVE sorted(_)
sorted(S) ==
    IF S = {} THEN <<>>
    ELSE LET m == CHOOSE x \in S : \A y \in S : x <= y
         IN << m >> \o sorted(S \ {m})

\* The emptiness test that never reports.
NoData_never(wd) == FALSE

\* `if not weekly_data`
NoData(wd) == ~Truthy(wd)

\* The points plotted by create_graph: the sorted weeks, only the last
\* num_weeks of them when there are more.
create_graph(wd, num_weeks) ==
    LET sorted_weeks == sorted(DOMAIN wd)
        n == Len(sorted_weeks)
        shown == IF n > num_weeks
                 THEN SubSeq(sorted_weeks, n - num_weeks + 1, n)
                 ELSE sorted_weeks
    IN [i \in 1..Len(shown) |-> [week |-> shown[i], hours |-> wd[shown[i]]]]

\* filtered_activities = filter_activities(activities); print(...)
FilterActivities ==
    /\ spc = "filter"
    /\ LET r == filter_activities(filter_input.v)
       IN IF r.raised
          THEN /\ spc' = "done"
               /\ soutcome' = "crash"
               /\ UNCHANGED << filtered, sprinted >>
          ELSE /\ spc' = "group"
               /\ filtered' = JList(r.value)
               /\ sprinted' = sprinted \cup {"after_filtering"}
               /\ UNCHANGED soutcome
    /\ UNCHANGED << fetch_vars, weekly_data, chart, oauth_vars >>

\* weekly_data = group_by_week(filtered_activities)
GroupByWeek ==
    /\ spc = "group"
    /\ LET r == group_by_week(filtered.v)
       IN IF r.raised
          THEN /\ spc' = "done"
               /\ soutcome' = "crash"
               /\ UNCHANGED weekly_data
          ELSE /\ spc' = "graph"
               /\ weekly_data' = JDict(r.value)
               /\ UNCHANGED soutcome
    /\ UNCHANGED << fetch_vars, filtered, chart, sprinted, oauth_vars >>

\* create_graph(weekly_data, args.weeks), then main returns
CreateGraph ==
    /\ spc = "graph"
    /\ spc' = "done"
    /\ IF NoData(weekly_data)
       THEN /\ sprinted' = sprinted \cup {"no_data_to_display"}
            /\ soutcome' = "no_data"
            /\ UNCHANGED chart
       ELSE /\ chart' = create_graph(weekly_data.v, weeks)
            /\ soutcome' = "chart"
            /\ UNCHANGED sprinted
    /\ UNCHANGED << fetch_vars, filtered, weekly_data, oauth_vars >>


StatsNext ==
    \/ \E w \in WeeksArgs : ParseArgs(w)
    \/ /\ spc = "request"
       /\ \E c \in CurlOutcomes : \E body \in ActivityBodies(page) : RequestPage(c, body)
    \/ HandleResponse
    \/ AfterFetch
    \/ FilterActivities
    \/ GroupByWeek
    \/ CreateGraph

vars == << oauth_vars, stats_vars >>
Init == OAuthInit /\ StatsInit
Next == OAuthNext
Spec == Init /\ [][Next]_vars
SpecStats == Init /\ [][StatsNext]_vars

(***************************************************************************)
(* The claims.                                                             *)
(***************************************************************************)
\* x is a mapping with field k.
HasField(x, k) == x.t = "dict" /\ k \in DOMAIN x.v

\* C1: the slot is written at most once, by the first request that carries
\* a code; every later callback leaves its value unchanged: once a request
\* has recorded a code, the slot holds that first code for ever.
C1_FirstWriteWins == first_code # None => auth_code = first_code

\* C2: exchange_code_for_token is invoked only if the slot held a code when
\* main checked it after the polling loop, and a run that ends by timeout
\* reports the timeout, performs no token exchange and writes no tokens
\* file.
C2_NoExchangeOnTimeout ==
    /\ submitted # <<>> => seen_check \in Codes
    /\ outcome = "timeout" =>
          /\ opc \in {"leave", "done", "exited"}
          /\ seen_check = None
          /\ "timeout" \in printed
          /\ submitted = <<>>
          /\ curl = "none"
          /\ file_writes = 0
          /\ tokens_file \in PriorFiles

\* A run that timed out although the listener served requests.
C2_Witness == outcome = "timeout" /\ nreq > 0 /\ now - start_time >= timeout

\* C3: the polling loop ends within timeout + one polling interval of its
\* start, whether or not a code arrives: from the start of the loop on, the
\* clock is never more than timeout + poll_interval past start_time.
C3_LoopBounded ==
    opc \notin {"bind", "init_slot", "start_thread", "open_browser",
                "browser_wait"} =>
        now - start_time <= timeout + poll_interval

\* C4: for every failed token exchange (no result, or a JSON response with
\* no access_token field) main reports the failure, does not write
\* strava_tokens.json, and ends with a clean return.
C4_FailureIsClean ==
    (/\ opc = "done"
     /\ curl \in {"nonzero", "badjson", "json"}
     /\ token_response # JUnset
     /\ ~HasField(token_response, "access_token"))
    => (/\ outcome = "failure"
        /\ "failed" \in printed
        /\ file_writes = 0
        /\ tokens_file \in PriorFiles)

\* C5: when curl cannot be started, exits non-zero, or answers with a body
\* that is not JSON, exchange_code_for_token reports the error and returns
\* None, and main ends with a reported failure and a clean return.
C5_TransportErrorsHandled ==
    (opc = "done" /\ curl \in {"oserror", "nonzero", "undecodable", "badjson"})
    => (/\ outcome = "failure"
        /\ token_response = JNull
        /\ printed \cap {"exchange_error", "parse_error"} # {}
        /\ "failed" \in printed)

\* C6: no retries: in a run the token endpoint is called at most once and the
\* authorization code is submitted at most once, whatever the outcome.
C6_NoRetry ==
    /\ Len(submitted) <= 1
    /\ curl # "none" => Len(submitted) = 1

\* A failed exchange after which the run ended.
C6_Witness == opc = "done" /\ outcome = "failure" /\ Len(submitted) = 1

\* C7: a GET on the callback path `/` that carries no code (no query string,
\* other parameters only, or a blank code) is answered 400 and records no
\* code.
C7_NoCodeOnRootIs400 ==
    (nreq > 0 /\ last_req.base = "/" /\ ~CarriesCode(last_req))
    => (last_status = 400 /\ auth_code = slot_before)

\* C8: a request without a code, on any path, leaves the slot as it was and
\* is answered with a 4xx status; and the slot holds a code only if some
\* request carried a `code` parameter.  The slot is compared while do_GET
\* runs for the request, and after its response until do_GET runs for the
\* next request.
C8_NoCodeNoWrite ==
    /\ (lpc = "respond" /\ ~CarriesCode(cur_req)) => auth_code = cur_before
    /\ (nreq > 0 /\ ~CarriesCode(last_req))
          => /\ last_status \in {400, 404}
             /\ lpc # "respond" => auth_code = slot_before
    /\ auth_code \notin {Unset, None}
          => (code_seen \/ (lpc = "respond" /\ CarriesCode(cur_req)))

\* A request without a code served after a code was recorded: the slot kept
\* the code.
C8_Witness ==
    /\ nreq > 0
    /\ ~CarriesCode(last_req)
    /\ last_status = 400
    /\ slot_before \in Codes
    /\ auth_code = slot_before

RECURSIVE ConcatPages(_)
\* The concatenation of the pages (lists) of a sequence of responses.
ConcatPages(rs) == IF rs = <<>> THEN <<>> ELSE rs[1].v \o ConcatPages(Tail(rs))

\* The lengths of the pages of a sequence of responses.
PageLens(rs) == [i \in 1..Len(rs) |-> Len(rs[i].v)]

\* get_activities_in_date_range has returned and every response was a list.
ReturnedFromLists ==
    /\ fetch_result # JUnset
    /\ served # <<>>
    /\ \A i \in 1..Len(served) : served[i].t = "list"

\* C9: pages 1, 2, 3, ... are requested in order, 200 per page; when every
\* response is a list, the fetch stops after the first page with fewer than
\* per_page records and returns the concatenation of the received pages in
\* request order; page sizes [200, 200, 47] make 3 requests and 447
\* records, a short first page makes 1 request.
C9_Paging ==
    /\ requested = [i \in 1..Len(requested) |-> [page |-> i, per_page |-> 200]]
    /\ ReturnedFromLists =>
          /\ Len(requested) = Len(served)
          /\ fetch_result = JList(ConcatPages(served))
          /\ \A i \in 1..(Len(served) - 1) : Len(served[i].v) >= per_page
          /\ Len(served[Len(served)].v) < per_page
          /\ PageLens(served) = <<200, 200, 47>> =>
                Len(requested) = 3 /\ Len(fetch_result.v) = 447
          /\ Len(served[1].v) < per_page => Len(requested) = 1

\* The fetch of pages of 200, 200 and 47 records has returned 447 records.
C9_Witness ==
    /\ ReturnedFromLists
    /\ PageLens(served) = <<200, 200, 47>>
    /\ Len(fetch_result.v) = 447

\* C10: when a page request returns a mapping with an `errors` key, the
\* fetch reports the error, issues no further request and returns an empty
\* sequence: nothing reaches filter_activities.
C10_ErrorDiscards ==
    \A i \in 1..Len(served) :
        (IsApiError(served[i]) /\ ~(i = Len(served) /\ spc = "handle"))
        => (/\ i = Len(served)
            /\ Len(requested) = i
            /\ "api_error" \in sprinted
            /\ fetch_result = JList(<<>>)
            /\ filter_input = JUnset)

\* C11: the sequence handed to aggregation is complete: whenever the fetch
\* returns a non-empty sequence, every request was answered with a list, the
\* last of them a short page, and the result is all of these pages; a failed
\* request for a later page never leaves a truncated sequence as the result.
C11_CompleteSequence ==
    (fetch_result # JUnset /\ Truthy(fetch_result))
    => (/\ ReturnedFromLists
        /\ Len(served[Len(served)].v) < per_page
        /\ fetch_result = JList(ConcatPages(served)))

\* The type names that match the exclusion set whatever their case.
ExcludedTypeNames ==
    {"WeightTraining", "weighttraining", "Workout", "workout", "WORKOUT"}

\* The activity counts towards the weekly totals.
Counts(a) == ~("type" \in DOMAIN a.v /\ a.v["type"].v \in ExcludedTypeNames)

\* The date a week key stands for.
KeyDate(k) == Date(k \div 10000, (k \div 100) % 100, k % 100)

\* The activity starts in the seven days that begin on the day of key k.
InWeek(k, a) ==
    LET o == toordinal(a.v["start_date"].date) - toordinal(KeyDate(k))
    IN 0 <= o /\ o <= 6

\* The moving seconds of the counted activities lo..hi of acts that start
\* in the week of key k.
RECURSIVE SecondsInWeek(_, _, _, _)
SecondsInWeek(acts, k, lo, hi) ==
    IF lo > hi THEN 0
    ELSE IF lo = hi
    THEN IF Counts(acts[lo]) /\ InWeek(k, acts[lo])
         THEN PyGet(acts[lo], "moving_time", JNum(0)).v ELSE 0
    ELSE LET mid == (lo + hi) \div 2
         IN SecondsInWeek(acts, k, lo, mid) + SecondsInWeek(acts, k, mid + 1, hi)

\* C12: once filter_activities and group_by_week have run on the fetched
\* activities, every bucket is keyed by a Monday and holds, in hours, the sum
\* of moving_time / 3600 over exactly the non-excluded activities that start
\* in that Monday-to-Sunday week; activities of an excluded type (any case)
\* add nothing, and every non-excluded activity has its week's bucket.
C12_WeeklyBuckets ==
    (weekly_data # JUnset)
    => LET acts == filter_input.v
           wd == weekly_data.v
       IN /\ \A k \in DOMAIN wd :
                /\ weekday(KeyDate(k)) = 0
                /\ wd[k].num * 3600 = SecondsInWeek(acts, k, 1, Len(acts)) * wd[k].den
                /\ \E i \in 1..Len(acts) : Counts(acts[i]) /\ InWeek(k, acts[i])
          /\ \A i \in 1..Len(acts) :
                Counts(acts[i]) => \E k \in DOMAIN wd : InWeek(k, acts[i])

\* 3600 s on Monday 2024-01-01 and 1800 s on Friday 2024-01-05 have been
\* grouped into the bucket 2024-01-01 = 3/2 hours.
C12_Witness ==
    /\ filter_input = JList(<< Act("Run", JIso(2024, 1, 1), 3600),
                               Act("Ride", JIso(2024, 1, 5), 1800) >>)
    /\ weekly_data = JDict(20240101 :> [num |-> 3, den |-> 2])

\* C13: after a run whose token response contains access_token, the file
\* strava_tokens.json holds exactly that response, whatever it held before,
\* and it has been written exactly once in the run.
C13_FileHoldsPayload ==
    (opc = "done" /\ HasField(token_response, "access_token"))
    => (tokens_file = token_response /\ file_writes = 1)

\* Every activity handed to filter_activities has an excluded type.
AllExcluded(acts) == \A i \in 1..Len(acts) : ~Counts(acts[i])

\* C14: a run whose first page is empty, and likewise a run in which every
\* fetched activity is filtered out, never raises and never draws a chart,
\* and when it has ended it has an empty result and has reported that there
\* is no data.
C14_NoDataNoChart ==
    /\ (Len(served) >= 1 /\ served[1] = JList(<<>>))
       => /\ soutcome # "crash"
          /\ chart = <<>>
          /\ spc \in {"handle", "fetched", "done"}
          /\ spc # "handle" => fetch_result = JList(<<>>)
          /\ spc = "done" => (soutcome = "no_activities" /\ "no_activities" \in sprinted)
    /\ (filter_input # JUnset /\ AllExcluded(filter_input.v))
       => /\ soutcome # "crash"
          /\ chart = <<>>
          /\ filtered \in {JUnset, JList(<<>>)}
          /\ weekly_data \in {JUnset, JDict(EmptyMap)}
          /\ spc = "done" => (soutcome = "no_data" /\ "no_data_to_display" \in sprinted)

\* A run in which both fetched activities were strength sessions has ended
\* with the no-data report.
C14_Witness ==
    /\ spc = "done"
    /\ soutcome = "no_data"
    /\ filter_input # JUnset
    /\ Len(filter_input.v) = 2
    /\ filtered = JList(<<>>)
    /\ "no_data_to_display" \in sprinted

\* C15: for every weeks value that is zero or negative the run prints the
\* explanatory message and does nothing else: no request is issued, nothing
\* is filtered or grouped, and no chart is drawn.
C15_NonPositiveRejected ==
    (spc # "args" /\ weeks <= 0)
    => /\ spc = "done"
       /\ soutcome = "rejected"
       /\ sprinted = {"weeks_must_be_positive"}
       /\ requested = <<>>
       /\ served = <<>>
       /\ fetch_result = JUnset
       /\ filtered = JUnset
       /\ weekly_data = JUnset
       /\ chart = <<>>

\* The run with weeks = 0 has been rejected.
C15_Witness == spc = "done" /\ weeks = 0 /\ soutcome = "rejected"

\* C16: the server socket is bound and listening before the browser is
\* told to open the consent URL, so no connection made after the navigation
\* is refused for want of a listener; and the slot has been initialised
\* before the listener thread serves.
C16_ListenBeforeBrowser ==
    /\ (browser_open /\ opc \notin {"done", "exited"}) => listening
    /\ ~refused_not_ready
    /\ serving => auth_code # Unset
    /\ (serving /\ opc \notin {"done", "exited"}) => listening

\* The browser has just been launched: the socket listens, the thread
\* serves, the slot is empty and no request has come yet.
C16_Witness ==
    /\ opc = "browser_wait"
    /\ browser_open
    /\ listening
    /\ serving
    /\ auth_code = None
    /\ nreq = 0

\* C17: the listener never holds the main thread up: until the process has
\* exited, the main thread always has a step it can take, whatever the
\* listener thread is doing (waiting in its select, serving an accepted
\* connection, running on a closed socket); in particular main leaves the
\* `with` block on every terminal path and the process then exits.
C17_ListenerNeverBlocksExit == opc # "exited" => ENABLED MainStep

\* The process has exited after a success while the listener thread, never
\* stopped, was in the handler of a connection it had accepted before the
\* socket was closed.
C17_Witness ==
    /\ opc = "exited"
    /\ outcome = "success"
    /\ serving
    /\ ~listening
    /\ lpc = "handle"

\* C18: the code passed to exchange_code_for_token is the code whose
\* presence ended the polling loop, the code the None check saw and the
\* code reported to the operator.
C18_OneObservation ==
    submitted # <<>>
    => (/\ submitted[1] = seen_loop
        /\ submitted[1] = seen_check
        /\ submitted[1] = read_print)

=============================================================================
